---- MODULE Spec2Model ----
(***************************************************************************)
(* A model of the GarminConnect client (src/src/garmin/GarminConnect.ts)   *)
(* and of the file helpers it uses (checkIsDirectory, createDirectory,     *)
(* writeToFile): credential resolution, the token store and its            *)
(* persistence, the request dispatcher and the upload/download handlers.   *)
(***************************************************************************)
EXTENDS Integers, Sequences, FiniteSets, TLC

VARIABLES
    config,        \* module-level fallback credentials: a heap reference or Undefined
    heap,          \* credential objects, by reference: [username, password]
    made,          \* made[i]: the i-th `new GarminConnect(...)` returned an instance
    credentials,   \* credentials[i]: the reference held in this.credentials
    oauth1Token,   \* oauth1Token[i]: this.client.oauth1Token
    oauth2Token,   \* oauth2Token[i]: this.client.oauth2Token
    fs,            \* the file system: fs[dir] = [kind, files]
    lastExport,    \* history: the exportToken() value of the last complete exportTokenToFile
    lastOp,        \* the last public call and how it ended
    call,          \* the dispatcher call in flight (HttpClient)
    transport      \* what the HTTP transport and the file reader have been asked to do

vars == <<config, heap, made, credentials, oauth1Token, oauth2Token, fs,
          lastExport, lastOp, call, transport>>

(***************************************************************************)
(* JavaScript values.  A value is undefined, null or an object; an object  *)
(* is its own properties in insertion order, each a string or a number.    *)
(***************************************************************************)
Undefined == [kind |-> "undefined", props |-> <<>>]
Null      == [kind |-> "null", props |-> <<>>]
Obj(p)    == [kind |-> "object", props |-> p]
Str(s)    == [t |-> "str", s |-> s, n |-> 0]
Num(n)    == [t |-> "num", s |-> "", n |-> n]
Prop(k, v) == [k |-> k, v |-> v]

\* `if (x)` on a token: undefined and null are falsy, every object is truthy.
Truthy(v) == v.kind = "object"

\* The OAuth1 tokens and OAuth2 tokens the service issues in this model.
OAuth1Tokens ==
    { Obj(<<Prop("oauth_token", Str("t1")), Prop("oauth_token_secret", Str("s1"))>>),
      Obj(<<Prop("oauth_token", Str("t2")), Prop("oauth_token_secret", Str("s2"))>>) }

OAuth2Tokens ==
    { Obj(<<Prop("access_token", Str("a1")), Prop("expires_at", Num(100))>>),
      Obj(<<Prop("access_token", Str("a2")), Prop("expires_at", Num(200))>>) }

(***************************************************************************)
(* JSON.  A text is a sequence of lexemes.                                 *)
(***************************************************************************)
Lex(c, s, n) == [c |-> c, s |-> s, n |-> n]
LBrace  == Lex("{", "", 0)
RBrace  == Lex("}", "", 0)
Colon   == Lex(":", "", 0)
Comma   == Lex(",", "", 0)
NullLex == Lex("null", "", 0)
StrLex(s) == Lex("str", s, 0)
NumLex(n) == Lex("num", "", n)

ValueLex(v) == IF v.t = "str" THEN StrLex(v.s) ELSE NumLex(v.n)

RECURSIVE Members(_, _)
Members(props, i) ==
    IF i > Len(props) THEN <<>>
    ELSE (IF i > 1 THEN <<Comma>> ELSE <<>>)
         \o <<StrLex(props[i].k), Colon, ValueLex(props[i].v)>>
         \o Members(props, i + 1)

\* JSON.stringify of a token (an object, or null).
JSONstringify(v) ==
    IF v.kind = "object" THEN <<LBrace>> \o Members(v.props, 1) \o <<RBrace>>
    ELSE <<NullLex>>

IsValueLex(l) == l.c \in {"str", "num"}
LexValue(l) == IF l.c = "str" THEN Str(l.s) ELSE Num(l.n)

\* The lexemes between the braces are key : value groups separated by commas.
WellFormedMembers(inner) ==
    /\ Len(inner) % 4 = 3
    /\ \A g \in 0..((Len(inner) - 3) \div 4) :
          /\ inner[4 * g + 1].c = "str"
          /\ inner[4 * g + 2] = Colon
          /\ IsValueLex(inner[4 * g + 3])
          /\ (4 * g + 4 <= Len(inner) => inner[4 * g + 4] = Comma)

ParsedMembers(inner) ==
    [g \in 1..((Len(inner) + 1) \div 4) |->
        Prop(inner[4 * g - 3].s, LexValue(inner[4 * g - 1]))]

\* JSON.parse: [ok, val]; ok = FALSE is the SyntaxError it throws.
JSONparse(text) ==
    IF text = <<NullLex>> THEN [ok |-> TRUE, val |-> Null]
    ELSE IF Len(text) >= 2 /\ text[1] = LBrace /\ text[Len(text)] = RBrace
    THEN LET inner == SubSeq(text, 2, Len(text) - 1) IN
         IF inner = <<>> THEN [ok |-> TRUE, val |-> Obj(<<>>)]
         ELSE IF WellFormedMembers(inner)
              THEN [ok |-> TRUE, val |-> Obj(ParsedMembers(inner))]
              ELSE [ok |-> FALSE, val |-> Undefined]
    ELSE [ok |-> FALSE, val |-> Undefined]

(***************************************************************************)
(* The file system and the helpers of the utils module.                    *)
(***************************************************************************)
Dirs == {"dir"}
Oauth1File == [base |-> "oauth1_token", ext |-> "json"]
Oauth2File == [base |-> "oauth2_token", ext |-> "json"]

ActivityIds == {0, 123}
ExportTypes == {"tcx", "gpx", "kml", "zip"}

FileName(base, ext) == [base |-> base, ext |-> ext]

\* `${activity.activityId}.${type}`
ActivityFileName(id, type) == FileName(ToString(id), type)

\* The names written to: an activityId of 0 is refused before any write.
FileNames ==
    {Oauth1File, Oauth2File} \cup
    { ActivityFileName(id, t) : id \in ActivityIds \ {0}, t \in ExportTypes }

\* File data: a JSON text, or a response body written as it came.
NoFile       == [exists |-> FALSE, text |-> <<>>, body |-> ""]
TextFile(t)  == [exists |-> TRUE, text |-> t, body |-> ""]
BodyFile(b)  == [exists |-> TRUE, text |-> <<>>, body |-> b]

NoFiles == [f \in FileNames |-> NoFile]

\* existsSync(p) && lstatSync(p).isDirectory()
checkIsDirectory(fsys, d) == fsys[d].kind = "dir"

\* mkdirSync(p) throws EEXIST when the path exists.
createDirectoryThrows(fsys, d) == fsys[d].kind # "absent"
createDirectory(fsys, d) == [fsys EXCEPT ![d] = [kind |-> "dir", files |-> NoFiles]]

\* writeFileSync(path.join(d, f), data)
writeToFile(fsys, d, f, data) == [fsys EXCEPT ![d].files[f] = data]

(***************************************************************************)
(* Credentials.  A GCCredentials object lives on the heap and is held by   *)
(* reference: the module-level config object, and one object of the        *)
(* caller's.                                                               *)
(***************************************************************************)
Inst == {1, 2}
NoRef == "undefined"
ConfigRef == "cfg"
CallerRef == "obj"
Refs == {ConfigRef, CallerRef}

Cred(u, p) == [username |-> u, password |-> p]
Usernames == {"u1", "u2"}
Passwords == {"p1"}

\* The accounts the service knows.
Accounts == {Cred("u1", "p1")}

\* Where a dispatcher that retried without end is cut off.
MaxRequests == 3

NoValue == Undefined
Op(op, i, err, arg) ==
    [op |-> op, inst |-> i, err |-> err, arg |-> arg, ret1 |-> NoValue, ret2 |-> NoValue,
     id |-> 0, type |-> "", file |-> <<>>, fmt |-> <<>>, body |-> ""]
NoExport == [valid |-> FALSE, inst |-> 0, dir |-> "", oauth1 |-> Undefined, oauth2 |-> Undefined]
NoCall == [pc |-> "idle", inst |-> 0, verb |-> "", expired |-> FALSE, sent |-> 0,
           refreshes |-> 0, refreshOk |-> FALSE, retried |-> FALSE, result |-> ""]
NoTransport == [requests |-> <<>>, opened |-> <<>>, mkdirs |-> <<>>]

(***************************************************************************)
(* constructor(credentials = config, domain)                               *)
(***************************************************************************)
\* A constructor that prefers the fallback configuration to its argument.
ResolveConfigFirst(arg, cfg) == IF cfg # NoRef THEN cfg ELSE arg

\* The default parameter: an argument of undefined takes the value of config.
ResolveCredentials(arg, cfg) == IF arg = NoRef THEN cfg ELSE arg

constructor(i, arg) ==
    /\ ~made[i]
    /\ LET c == ResolveCredentials(arg, config) IN
       IF c = NoRef
       THEN /\ lastOp' = Op("constructor", i, "Missing credentials", arg)
            /\ UNCHANGED <<made, credentials, oauth1Token, oauth2Token>>
       ELSE /\ made' = [made EXCEPT ![i] = TRUE]
            /\ credentials' = [credentials EXCEPT ![i] = c]
            /\ oauth1Token' = [oauth1Token EXCEPT ![i] = Undefined]
            /\ oauth2Token' = [oauth2Token EXCEPT ![i] = Undefined]
            /\ lastOp' = Op("constructor", i, "none", arg)
    /\ UNCHANGED <<config, heap, fs, lastExport, call, transport>>

(***************************************************************************)
(* login(username?, password?)                                             *)
(***************************************************************************)
\* What HttpClient.login can come to for a username and a password: the
\* negotiation may fail for anyone, the credentials are refused unless the
\* service knows them, and otherwise a token pair is issued.
LoginOutcomes(u, p) ==
    {[err |-> "AuthNegotiationError", oauth1 |-> Undefined, oauth2 |-> Undefined]}
    \cup (IF Cred(u, p) \in Accounts
          THEN {[err |-> "none", oauth1 |-> t1, oauth2 |-> t2] :
                    t1 \in OAuth1Tokens, t2 \in OAuth2Tokens}
          ELSE {[err |-> "InvalidCredentialsError", oauth1 |-> Undefined,
                 oauth2 |-> Undefined]})

\* A login that clears the store when it fails.
StoreClearedOnFailure(old1, old2, outcome) ==
    IF outcome.err = "none"
    THEN [oauth1 |-> outcome.oauth1, oauth2 |-> outcome.oauth2]
    ELSE [oauth1 |-> Undefined, oauth2 |-> Undefined]

\* The token store after HttpClient.login: populated on success, left as it
\* was on any failure.
StoreAfterLogin(old1, old2, outcome) ==
    IF outcome.err = "none"
    THEN [oauth1 |-> outcome.oauth1, oauth2 |-> outcome.oauth2]
    ELSE [oauth1 |-> old1, oauth2 |-> old2]

\* this.credentials.username = username; this.credentials.password = password
SetCredentials(h, ref, username, password) ==
    IF username # "" /\ password # ""
    THEN [h EXCEPT ![ref] = Cred(username, password)]
    ELSE h

login(i, username, password) ==
    /\ made[i]
    /\ LET h == SetCredentials(heap, credentials[i], username, password) IN
       \E outcome \in LoginOutcomes(h[credentials[i]].username, h[credentials[i]].password) :
          LET store == StoreAfterLogin(oauth1Token[i], oauth2Token[i], outcome) IN
          /\ heap' = h
          /\ oauth1Token' = [oauth1Token EXCEPT ![i] = store.oauth1]
          /\ oauth2Token' = [oauth2Token EXCEPT ![i] = store.oauth2]
          /\ lastOp' = Op("login", i, outcome.err, "")
    /\ UNCHANGED <<config, made, credentials, fs, lastExport, call, transport>>

(***************************************************************************)
(* exportTokenToFile(dirPath)                                              *)
(***************************************************************************)
exportTokenToFile(i, d) ==
    /\ made[i]
    /\ IF ~checkIsDirectory(fs, d) /\ createDirectoryThrows(fs, d)
       THEN /\ lastOp' = Op("exportTokenToFile", i, "EEXIST", d)
            /\ UNCHANGED <<fs, lastExport>>
       ELSE LET fs0 == IF ~checkIsDirectory(fs, d) THEN createDirectory(fs, d) ELSE fs
                fs1 == IF Truthy(oauth1Token[i])
                       THEN writeToFile(fs0, d, Oauth1File,
                                        TextFile(JSONstringify(oauth1Token[i])))
                       ELSE fs0
                fs2 == IF Truthy(oauth2Token[i])
                       THEN writeToFile(fs1, d, Oauth2File,
                                        TextFile(JSONstringify(oauth2Token[i])))
                       ELSE fs1
            IN /\ fs' = fs2
               /\ lastExport' =
                     IF Truthy(oauth1Token[i]) /\ Truthy(oauth2Token[i])
                     THEN [valid |-> TRUE, inst |-> i, dir |-> d,
                           oauth1 |-> oauth1Token[i], oauth2 |-> oauth2Token[i]]
                     ELSE IF Truthy(oauth1Token[i]) \/ Truthy(oauth2Token[i])
                          THEN NoExport
                          ELSE lastExport
               /\ lastOp' = Op("exportTokenToFile", i, "none", d)
    /\ UNCHANGED <<config, heap, made, credentials, oauth1Token, oauth2Token,
                   call, transport>>

(***************************************************************************)
(* loadTokenByFile(dirPath)                                                *)
(***************************************************************************)
\* fs.readFileSync followed by JSON.parse: [err, val].
ReadToken(fsys, d, f) ==
    IF ~fsys[d].files[f].exists THEN [err |-> "ENOENT", val |-> Undefined]
    ELSE LET r == JSONparse(fsys[d].files[f].text) IN
         IF r.ok THEN [err |-> "none", val |-> r.val]
         ELSE [err |-> "SyntaxError", val |-> Undefined]

\* loadTokenByFile reading oauth1_token.json for both tokens.
LoadTokenByFileSameFile(fsys, d, old1, old2) ==
    IF ~checkIsDirectory(fsys, d)
    THEN [err |-> "Directory not found", oauth1 |-> old1, oauth2 |-> old2]
    ELSE LET r1 == ReadToken(fsys, d, Oauth1File) IN
         IF r1.err # "none"
         THEN [err |-> r1.err, oauth1 |-> old1, oauth2 |-> old2]
         ELSE [err |-> "none", oauth1 |-> r1.val, oauth2 |-> r1.val]

\* The statements of loadTokenByFile in order; each throw leaves what the
\* statements before it assigned.
LoadTokenByFileResult(fsys, d, old1, old2) ==
    IF ~checkIsDirectory(fsys, d)
    THEN [err |-> "Directory not found", oauth1 |-> old1, oauth2 |-> old2]
    ELSE LET r1 == ReadToken(fsys, d, Oauth1File) IN
         IF r1.err # "none"
         THEN [err |-> r1.err, oauth1 |-> old1, oauth2 |-> old2]
         ELSE LET r2 == ReadToken(fsys, d, Oauth2File) IN
              IF r2.err # "none"
              THEN [err |-> r2.err, oauth1 |-> r1.val, oauth2 |-> old2]
              ELSE [err |-> "none", oauth1 |-> r1.val, oauth2 |-> r2.val]

loadTokenByFile(i, d) ==
    /\ made[i]
    /\ LET r == LoadTokenByFileResult(fs, d, oauth1Token[i], oauth2Token[i]) IN
       /\ oauth1Token' = [oauth1Token EXCEPT ![i] = r.oauth1]
       /\ oauth2Token' = [oauth2Token EXCEPT ![i] = r.oauth2]
       /\ lastOp' = Op("loadTokenByFile", i, r.err, d)
    /\ UNCHANGED <<config, heap, made, credentials, fs, lastExport, call, transport>>

(***************************************************************************)
(* exportToken() and loadToken(oauth1, oauth2)                             *)
(***************************************************************************)
\* exportToken throwing only when both tokens are absent.
ExportTokenBothAbsent(t1, t2) ==
    IF ~Truthy(t1) /\ ~Truthy(t2)
    THEN [err |-> "Token not found", oauth1 |-> NoValue, oauth2 |-> NoValue]
    ELSE [err |-> "none", oauth1 |-> t1, oauth2 |-> t2]

ExportTokenResult(t1, t2) ==
    IF ~Truthy(t1) \/ ~Truthy(t2)
    THEN [err |-> "Token not found", oauth1 |-> NoValue, oauth2 |-> NoValue]
    ELSE [err |-> "none", oauth1 |-> t1, oauth2 |-> t2]

exportToken(i) ==
    /\ made[i]
    /\ LET r == ExportTokenResult(oauth1Token[i], oauth2Token[i]) IN
       lastOp' = [Op("exportToken", i, r.err, "") EXCEPT
                     !.ret1 = r.oauth1, !.ret2 = r.oauth2]
    /\ UNCHANGED <<config, heap, made, credentials, oauth1Token, oauth2Token, fs,
                   lastExport, call, transport>>

loadToken(i, oauth1, oauth2) ==
    /\ made[i]
    /\ oauth1Token' = [oauth1Token EXCEPT ![i] = oauth1]
    /\ oauth2Token' = [oauth2Token EXCEPT ![i] = oauth2]
    /\ lastOp' = Op("loadToken", i, "none", "")
    /\ UNCHANGED <<config, heap, made, credentials, fs, lastExport, call, transport>>

(***************************************************************************)
(* The token store and its persistence: two instances, one built from the  *)
(* fallback configuration and one from the caller's object, and a          *)
(* directory in any of the shapes it can be found in.                      *)
(***************************************************************************)
Garbage == <<LBrace>>
StaleOAuth1 == CHOOSE t \in OAuth1Tokens : t.props[1].v = Str("t1")
StaleOAuth2 == CHOOSE t \in OAuth2Tokens : t.props[1].v = Str("a1")

InitialTokenFiles(f1, f2) ==
    [NoFiles EXCEPT ![Oauth1File] = f1, ![Oauth2File] = f2]

InitialDirs ==
    {[kind |-> "absent", files |-> NoFiles], [kind |-> "file", files |-> NoFiles]}
    \cup {[kind |-> "dir", files |-> InitialTokenFiles(f1, f2)] :
            f1 \in {NoFile, TextFile(Garbage), TextFile(JSONstringify(StaleOAuth1))},
            f2 \in {NoFile, TextFile(Garbage), TextFile(JSONstringify(StaleOAuth2))}}

Init ==
    /\ config = ConfigRef
    /\ heap = [r \in Refs |-> Cred("u1", "p1")]
    /\ made = [i \in Inst |-> TRUE]
    /\ credentials = [i \in Inst |-> IF i = 1 THEN ConfigRef ELSE CallerRef]
    /\ oauth1Token = [i \in Inst |-> Undefined]
    /\ oauth2Token = [i \in Inst |-> Undefined]
    /\ fs \in [Dirs -> InitialDirs]
    /\ lastExport = NoExport
    /\ lastOp = Op("none", 0, "none", "")
    /\ call = NoCall
    /\ transport = NoTransport

UsernameArgs == {""} \cup Usernames
PasswordArgs == {""} \cup Passwords

Next ==
    \/ \E i \in Inst, u \in UsernameArgs, p \in PasswordArgs : login(i, u, p)
    \/ \E i \in Inst, t1 \in OAuth1Tokens, t2 \in OAuth2Tokens : loadToken(i, t1, t2)
    \/ \E i \in Inst, d \in Dirs : loadTokenByFile(i, d)
    \/ \E i \in Inst, d \in Dirs : exportTokenToFile(i, d)
    \/ \E i \in Inst : exportToken(i)

Spec == Init /\ [][Next]_vars

(***************************************************************************)
(* Credential resolution: the instances are yet to be constructed, with    *)
(* or without a garmin.config.json.                                        *)
(***************************************************************************)
InitCred ==
    /\ config \in {NoRef, ConfigRef}
    /\ heap = [r \in Refs |-> Cred("u1", "p1")]
    /\ made = [i \in Inst |-> FALSE]
    /\ credentials = [i \in Inst |-> NoRef]
    /\ oauth1Token = [i \in Inst |-> Undefined]
    /\ oauth2Token = [i \in Inst |-> Undefined]
    /\ fs = [d \in Dirs |-> [kind |-> "absent", files |-> NoFiles]]
    /\ lastExport = NoExport
    /\ lastOp = Op("none", 0, "none", "")
    /\ call = NoCall
    /\ transport = NoTransport

NextCred ==
    \/ \E i \in Inst, arg \in {NoRef, CallerRef} : constructor(i, arg)
    \/ \E i \in Inst, u \in UsernameArgs, p \in PasswordArgs : login(i, u, p)

SpecCred == InitCred /\ [][NextCred]_vars

(***************************************************************************)
(* Properties of the token store.                                          *)
(***************************************************************************)
StoreUnchanged == oauth1Token' = oauth1Token /\ oauth2Token' = oauth2Token

\* C1: after exportTokenToFile(dir) by an instance holding both tokens, a
\* loadTokenByFile(dir) succeeds and leaves the loading instance with an
\* exportToken() equal to what the exporting instance's exportToken() was.
RoundTrip ==
    (lastOp.op = "loadTokenByFile" /\ lastExport.valid /\ lastOp.arg = lastExport.dir)
    => /\ lastOp.err = "none"
       /\ ExportTokenResult(oauth1Token[lastOp.inst], oauth2Token[lastOp.inst])
            = [err |-> "none", oauth1 |-> lastExport.oauth1, oauth2 |-> lastExport.oauth2]

\* One instance exported both tokens and the other instance loaded them.
RoundTripWitness ==
    /\ lastOp.op = "loadTokenByFile"
    /\ lastOp.err = "none"
    /\ lastExport.valid
    /\ lastExport.inst # lastOp.inst
    /\ oauth1Token[lastOp.inst] = lastExport.oauth1
    /\ oauth1Token[lastExport.inst] # lastExport.oauth1

\* C2: exportToken() throws "Token not found" exactly when the OAuth1 or the
\* OAuth2 token is absent, otherwise returns the two tokens held, and in
\* both cases leaves the store and the files as they were.
ExportTokenContract ==
    [][lastOp'.op = "exportToken" =>
          LET i == lastOp'.inst IN
          /\ StoreUnchanged
          /\ fs' = fs
          /\ IF ~Truthy(oauth1Token[i]) \/ ~Truthy(oauth2Token[i])
             THEN lastOp'.err = "Token not found"
             ELSE /\ lastOp'.err = "none"
                  /\ lastOp'.ret1 = oauth1Token[i]
                  /\ lastOp'.ret2 = oauth2Token[i]]_vars

\* exportToken() threw on an instance that holds one token and not the other.
ExportTokenWitness ==
    /\ lastOp.op = "exportToken"
    /\ lastOp.err = "Token not found"
    /\ Truthy(oauth1Token[lastOp.inst])
    /\ ~Truthy(oauth2Token[lastOp.inst])

\* C3: loadTokenByFile(dir) fails when the directory is absent or a token
\* file is missing or is not JSON, and a failing call replaces neither token.
LoadAllOrNothing ==
    [][lastOp'.op = "loadTokenByFile" =>
          LET d == lastOp'.arg IN
          /\ (\/ ~checkIsDirectory(fs, d)
              \/ ReadToken(fs, d, Oauth1File).err # "none"
              \/ ReadToken(fs, d, Oauth2File).err # "none") => lastOp'.err # "none"
          /\ lastOp'.err # "none" => StoreUnchanged]_vars

\* C4: a login that fails leaves both tokens of every instance as they were.
FailedLoginKeepsTokens ==
    [][(lastOp'.op = "login" /\ lastOp'.err # "none") => StoreUnchanged]_vars

\* A re-login failed on an instance that held both tokens, and still holds them.
FailedLoginWitness ==
    /\ lastOp.op = "login"
    /\ lastOp.err = "InvalidCredentialsError"
    /\ Truthy(oauth1Token[lastOp.inst])
    /\ Truthy(oauth2Token[lastOp.inst])

(***************************************************************************)
(* Properties of the credentials.                                          *)
(***************************************************************************)
\* C9: login on one instance changes neither the credentials of another
\* instance nor the fallback configuration.
CredentialsOwnedExclusively ==
    [][lastOp'.op = "login" =>
          /\ \A j \in Inst \ {lastOp'.inst} :
                made[j] => heap'[credentials[j]] = heap[credentials[j]]
          /\ config # NoRef => heap'[config] = heap[config]]_vars

\* C10: the constructor uses the credentials passed, the fallback
\* configuration when none are passed, and throws "Missing credentials",
\* making no instance, when there is neither.
CredentialPrecedence ==
    lastOp.op = "constructor" =>
       LET i == lastOp.inst IN
       /\ lastOp.arg # NoRef =>
             lastOp.err = "none" /\ made[i] /\ credentials[i] = lastOp.arg
       /\ (lastOp.arg = NoRef /\ config # NoRef) =>
             lastOp.err = "none" /\ made[i] /\ credentials[i] = config
       /\ (lastOp.arg = NoRef /\ config = NoRef) =>
             lastOp.err = "Missing credentials" /\ ~made[i]

\* An instance was built from the caller's credentials although a fallback
\* configuration was there.
CredentialPrecedenceWitness ==
    /\ lastOp.op = "constructor"
    /\ lastOp.arg = CallerRef
    /\ config = ConfigRef
    /\ made[lastOp.inst]
    /\ credentials[lastOp.inst] = CallerRef

(***************************************************************************)
(* The authenticated request dispatcher (HttpClient): one call at a time,  *)
(* from the request to its result.                                         *)
(***************************************************************************)
Request(verb, endpoint, id, fmt, binary, bearer) ==
    [verb |-> verb, endpoint |-> endpoint, id |-> id, fmt |-> fmt,
     binary |-> binary, bearer |-> bearer]

\* A dispatcher that refreshes and retries on every authentication failure.
RetryAlways(c) == c.sent < MaxRequests

\* An authentication failure is answered by a refresh and a retry once per call.
RetryAllowed(c) == ~c.retried

\* client.get / client.post / client.put / client.delete: the request goes
\* out with the current OAuth2 token as its bearer.
ClientRequest(i, verb, endpoint, id, expired) ==
    /\ made[i]
    /\ call.pc \in {"idle", "done"}
    /\ Truthy(oauth2Token[i])
    /\ call' = [NoCall EXCEPT !.pc = "awaiting", !.inst = i, !.verb = verb,
                              !.expired = expired, !.sent = 1]
    /\ transport' = [NoTransport EXCEPT
                        !.requests = <<Request(verb, endpoint, id, <<>>, FALSE,
                                               oauth2Token[i])>>]

ResultOf(response) ==
    CASE response = "ok" -> "ok"
      [] response = "auth" -> "AuthenticationError"
      [] response = "api" -> "ApiError"
      [] response = "network" -> "TransportError"

\* The responses the service can give: an expired token is refused.
Responses(c) ==
    IF c.expired /\ ~c.retried THEN {"auth"} ELSE {"ok", "auth", "api", "network"}

Respond(response) ==
    /\ call.pc = "awaiting"
    /\ response \in Responses(call)
    /\ IF response = "auth" /\ RetryAllowed(call)
       THEN call' = [call EXCEPT !.pc = "refreshing", !.refreshes = @ + 1]
       ELSE call' = [call EXCEPT !.pc = "done", !.result = ResultOf(response)]
    /\ UNCHANGED <<config, heap, made, credentials, oauth1Token, oauth2Token, fs,
                   lastExport, lastOp, transport>>

\* The refresh (or the re-login, when there is nothing to refresh with)
\* succeeded: the new token is stored and the request goes out once more.
RefreshSucceeds(relogin, t1, t2) ==
    /\ call.pc = "refreshing"
    /\ oauth1Token' = [oauth1Token EXCEPT ![call.inst] = IF relogin THEN t1 ELSE @]
    /\ oauth2Token' = [oauth2Token EXCEPT ![call.inst] = t2]
    /\ call' = [call EXCEPT !.pc = "awaiting", !.refreshOk = TRUE, !.retried = TRUE,
                            !.sent = @ + 1]
    /\ transport' = [transport EXCEPT
                        !.requests = Append(@, [@[1] EXCEPT !.bearer = t2])]
    /\ UNCHANGED <<config, heap, made, credentials, fs, lastExport, lastOp>>

RefreshFails ==
    /\ call.pc = "refreshing"
    /\ call' = [call EXCEPT !.pc = "done", !.result = "AuthenticationError"]
    /\ UNCHANGED <<config, heap, made, credentials, oauth1Token, oauth2Token, fs,
                   lastExport, lastOp, transport>>

(***************************************************************************)
(* get(url, data), post(url, data), put(url, data) and deleteActivity      *)
(***************************************************************************)
get(i, expired) ==
    /\ ClientRequest(i, "GET", "url", 0, expired)
    /\ lastOp' = Op("get", i, "none", "")
    /\ UNCHANGED <<config, heap, made, credentials, oauth1Token, oauth2Token, fs,
                   lastExport>>

post(i, expired) ==
    /\ ClientRequest(i, "POST", "url", 0, expired)
    /\ lastOp' = Op("post", i, "none", "")
    /\ UNCHANGED <<config, heap, made, credentials, oauth1Token, oauth2Token, fs,
                   lastExport>>

put(i, expired) ==
    /\ ClientRequest(i, "PUT", "url", 0, expired)
    /\ lastOp' = Op("put", i, "none", "")
    /\ UNCHANGED <<config, heap, made, credentials, oauth1Token, oauth2Token, fs,
                   lastExport>>

deleteActivity(i, activityId, expired) ==
    /\ made[i]
    /\ call.pc \in {"idle", "done"}
    /\ IF activityId = 0
       THEN /\ lastOp' = [Op("deleteActivity", i, "Missing activityId", "")
                             EXCEPT !.id = activityId]
            /\ call' = NoCall
            /\ transport' = NoTransport
       ELSE /\ ClientRequest(i, "DELETE", "ACTIVITY", activityId, expired)
            /\ lastOp' = [Op("deleteActivity", i, "none", "") EXCEPT !.id = activityId]
    /\ UNCHANGED <<config, heap, made, credentials, oauth1Token, oauth2Token, fs,
                   lastExport>>

InitDispatch ==
    /\ config = ConfigRef
    /\ heap = [r \in Refs |-> Cred("u1", "p1")]
    /\ made = [i \in Inst |-> TRUE]
    /\ credentials = [i \in Inst |-> IF i = 1 THEN ConfigRef ELSE CallerRef]
    /\ oauth1Token \in [Inst -> OAuth1Tokens]
    /\ oauth2Token \in [Inst -> OAuth2Tokens]
    /\ fs = [d \in Dirs |-> [kind |-> "absent", files |-> NoFiles]]
    /\ lastExport = NoExport
    /\ lastOp = Op("none", 0, "none", "")
    /\ call = NoCall
    /\ transport = NoTransport

NextDispatch ==
    \/ \E i \in Inst, expired \in BOOLEAN : get(i, expired)
    \/ \E i \in Inst, expired \in BOOLEAN : post(i, expired)
    \/ \E i \in Inst, expired \in BOOLEAN : put(i, expired)
    \/ \E i \in Inst, id \in ActivityIds, expired \in BOOLEAN : deleteActivity(i, id, expired)
    \/ \E response \in {"ok", "auth", "api", "network"} : Respond(response)
    \/ \E relogin \in BOOLEAN, t1 \in OAuth1Tokens, t2 \in OAuth2Tokens :
          RefreshSucceeds(relogin, t1, t2)
    \/ RefreshFails

SpecDispatch == InitDispatch /\ [][NextDispatch]_vars

\* C5: a call whose OAuth2 token is expired makes one refresh or re-login
\* attempt; when that succeeds the request is sent once more, when it fails
\* the call ends in an authentication error; no call sends its request a
\* third time or refreshes twice.
RetryOnce ==
    /\ call.refreshes <= 1
    /\ call.sent <= 2
    /\ Len(transport.requests) = call.sent
    /\ (call.pc = "done" /\ call.expired) =>
          /\ call.refreshes = 1
          /\ IF call.refreshOk
             THEN call.sent = 2
             ELSE call.sent = 1 /\ call.result = "AuthenticationError"
    /\ (call.pc = "done" /\ call.refreshes = 0) => call.sent = 1

\* A call with an expired token was refreshed, retried and answered.
RetryOnceWitness ==
    /\ call.pc = "done"
    /\ call.expired
    /\ call.refreshOk
    /\ call.sent = 2
    /\ call.result = "ok"

(***************************************************************************)
(* Strings of the upload path, as sequences of characters.                 *)
(***************************************************************************)
UpperLetters == <<"A", "B", "C", "D", "E", "F", "G", "H", "I", "J", "K", "L", "M",
                  "N", "O", "P", "Q", "R", "S", "T", "U", "V", "W", "X", "Y", "Z">>
LowerLetters == <<"a", "b", "c", "d", "e", "f", "g", "h", "i", "j", "k", "l", "m",
                  "n", "o", "p", "q", "r", "s", "t", "u", "v", "w", "x", "y", "z">>

LowerChar(c) ==
    IF \E k \in 1..Len(UpperLetters) : UpperLetters[k] = c
    THEN LowerLetters[CHOOSE k \in 1..Len(UpperLetters) : UpperLetters[k] = c]
    ELSE c

\* String.prototype.toLowerCase
toLowerCase(str) == [k \in 1..Len(str) |-> LowerChar(str[k])]

\* path.extname of a file name: from its last dot on, and nothing when
\* there is no dot or the only dot leads the name.
extname(file) ==
    LET dots == {k \in 1..Len(file) : file[k] = "."} IN
    IF dots = {} THEN <<>>
    ELSE LET last == CHOOSE k \in dots : \A j \in dots : j <= k IN
         IF last = 1 THEN <<>> ELSE SubSeq(file, last, Len(file))

\* The values of the UploadFileType enumeration.
UploadFileType == {<<"t", "c", "x">>, <<"g", "p", "x">>, <<"f", "i", "t">>}

\* An argument left out takes the parameter's default.
NotGiven == <<"undefined">>
DefaultFormat(format) == IF format = NotGiven THEN <<"f", "i", "t">> ELSE format
DefaultType(type) == IF type = "undefined" THEN "zip" ELSE type

\* What client.get and client.post come to.
Bodies == {"body1", "body2"}
ClientOutcomes ==
    {[err |-> "none", body |-> b] : b \in Bodies}
    \cup {[err |-> "ApiError", body |-> ""]}

(***************************************************************************)
(* uploadActivity(file, format = 'fit')                                    *)
(***************************************************************************)
\* (format || path.extname(file))?.toLowerCase()
DetectedFormat(file, format) ==
    toLowerCase(IF format # <<>> THEN format ELSE extname(file))

uploadActivity(i, file, formatArg, outcome) ==
    /\ made[i]
    /\ LET format == DefaultFormat(formatArg)
           op == [Op("uploadActivity", i, "none", "") EXCEPT !.file = file, !.fmt = format]
       IN
       IF DetectedFormat(file, format) \notin UploadFileType
       THEN /\ lastOp' = [op EXCEPT !.err = "Invalid format"]
            /\ transport' = NoTransport
       ELSE /\ lastOp' = [op EXCEPT !.err = outcome.err, !.body = outcome.body]
            /\ transport' = [NoTransport EXCEPT
                  !.opened = <<file>>,
                  !.requests = <<Request("POST", "UPLOAD", 0, format, FALSE,
                                         oauth2Token[i])>>]
    /\ UNCHANGED <<config, heap, made, credentials, oauth1Token, oauth2Token, fs,
                   lastExport, call>>

(***************************************************************************)
(* downloadOriginalActivityData(activity, dir, type = 'zip')               *)
(***************************************************************************)
\* A download that takes kml for gpx.
DownloadKmlAsGpx(type, id, bearer) ==
    CASE type = "tcx" -> <<Request("GET", "DOWNLOAD_TCX", id, <<>>, FALSE, bearer)>>
      [] type = "gpx" -> <<Request("GET", "DOWNLOAD_GPX", id, <<>>, FALSE, bearer)>>
      [] type = "kml" -> <<Request("GET", "DOWNLOAD_GPX", id, <<>>, FALSE, bearer)>>
      [] type = "zip" -> <<Request("GET", "DOWNLOAD_ZIP", id, <<>>, TRUE, bearer)>>
      [] OTHER -> <<>>

\* A download that takes every type it does not know for zip.
DownloadUnknownAsZip(type, id, bearer) ==
    CASE type = "tcx" -> <<Request("GET", "DOWNLOAD_TCX", id, <<>>, FALSE, bearer)>>
      [] type = "gpx" -> <<Request("GET", "DOWNLOAD_GPX", id, <<>>, FALSE, bearer)>>
      [] type = "kml" -> <<Request("GET", "DOWNLOAD_KML", id, <<>>, FALSE, bearer)>>
      [] OTHER -> <<Request("GET", "DOWNLOAD_ZIP", id, <<>>, TRUE, bearer)>>

\* The if / else if chain on type: the request it makes, and none when it
\* falls through to the throw.
DownloadRequests(type, id, bearer) ==
    CASE type = "tcx" -> <<Request("GET", "DOWNLOAD_TCX", id, <<>>, FALSE, bearer)>>
      [] type = "gpx" -> <<Request("GET", "DOWNLOAD_GPX", id, <<>>, FALSE, bearer)>>
      [] type = "kml" -> <<Request("GET", "DOWNLOAD_KML", id, <<>>, FALSE, bearer)>>
      [] type = "zip" -> <<Request("GET", "DOWNLOAD_ZIP", id, <<>>, TRUE, bearer)>>
      [] OTHER -> <<>>

downloadOriginalActivityData(i, activityId, d, typeArg, outcome) ==
    /\ made[i]
    /\ LET type == DefaultType(typeArg)
           op == [Op("downloadOriginalActivityData", i, "none", d)
                     EXCEPT !.id = activityId, !.type = type]
           mkdir == ~checkIsDirectory(fs, d)
           fs0 == IF mkdir THEN createDirectory(fs, d) ELSE fs
           log == [NoTransport EXCEPT !.mkdirs = IF mkdir THEN <<d>> ELSE <<>>]
           reqs == DownloadRequests(type, activityId, oauth2Token[i])
       IN
       IF activityId = 0
       THEN /\ lastOp' = [op EXCEPT !.err = "Missing activityId"]
            /\ transport' = NoTransport
            /\ fs' = fs
       ELSE IF mkdir /\ createDirectoryThrows(fs, d)
       THEN /\ lastOp' = [op EXCEPT !.err = "EEXIST"]
            /\ transport' = log
            /\ fs' = fs
       ELSE IF reqs = <<>>
       THEN /\ lastOp' = [op EXCEPT !.err = "Invalid type"]
            /\ transport' = log
            /\ fs' = fs0
       ELSE /\ lastOp' = [op EXCEPT !.err = outcome.err, !.body = outcome.body]
            /\ transport' = [log EXCEPT !.requests = reqs]
            /\ fs' = IF outcome.err = "none"
                     THEN writeToFile(fs0, d, ActivityFileName(activityId, type),
                                      BodyFile(outcome.body))
                     ELSE fs0
    /\ UNCHANGED <<config, heap, made, credentials, oauth1Token, oauth2Token,
                   lastExport, call>>

Files == {<<"r", ".", "G", "P", "X">>, <<"f", "i", "t">>}
FormatArgs ==
    {NotGiven, <<>>, <<"f", "i", "t">>, <<"F", "I", "T">>, <<"g", "p", "x">>,
     <<"x", "y", "z">>}
TypeArgs == {"undefined", "fit"} \cup ExportTypes

InitTransfer ==
    /\ config = ConfigRef
    /\ heap = [r \in Refs |-> Cred("u1", "p1")]
    /\ made = [i \in Inst |-> i = 1]
    /\ credentials = [i \in Inst |-> IF i = 1 THEN ConfigRef ELSE CallerRef]
    /\ oauth1Token = [i \in Inst |-> IF i = 1 THEN StaleOAuth1 ELSE Undefined]
    /\ oauth2Token = [i \in Inst |-> IF i = 1 THEN StaleOAuth2 ELSE Undefined]
    /\ fs \in [Dirs -> {[kind |-> k, files |-> NoFiles] : k \in {"absent", "file", "dir"}}]
    /\ lastExport = NoExport
    /\ lastOp = Op("none", 0, "none", "")
    /\ call = NoCall
    /\ transport = NoTransport

NextTransfer ==
    \/ \E i \in Inst, file \in Files, format \in FormatArgs, outcome \in ClientOutcomes :
          uploadActivity(i, file, format, outcome)
    \/ \E i \in Inst, id \in ActivityIds, d \in Dirs, type \in TypeArgs,
          outcome \in ClientOutcomes :
          downloadOriginalActivityData(i, id, d, type, outcome)

SpecTransfer == InitTransfer /\ [][NextTransfer]_vars

FilesUnchanged == \A d \in Dirs : fs'[d].files = fs[d].files

\* C6: uploadActivity with a format tag that is not a value of UploadFileType
\* throws "Invalid format" with no request made and the file not opened.
UploadRejectsUnknownFormat ==
    (lastOp.op = "uploadActivity" /\ lastOp.fmt \notin UploadFileType)
    => /\ lastOp.err = "Invalid format"
       /\ transport.requests = <<>>
       /\ transport.opened = <<>>

EndpointOf(type) ==
    CASE type = "tcx" -> "DOWNLOAD_TCX"
      [] type = "gpx" -> "DOWNLOAD_GPX"
      [] type = "kml" -> "DOWNLOAD_KML"
      [] type = "zip" -> "DOWNLOAD_ZIP"

\* C8: a download that succeeds made one GET to the endpoint of its type for
\* its activity, binary only for zip, left dir a directory, and wrote the
\* response body to <dir>/<activityId>.<type> and to no other file.
DownloadWritesOneFile ==
    [][(lastOp'.op = "downloadOriginalActivityData" /\ lastOp'.err = "none")
       => LET d == lastOp'.arg
              id == lastOp'.id
              type == lastOp'.type
          IN /\ type \in ExportTypes
             /\ Len(transport'.requests) = 1
             /\ transport'.requests[1].verb = "GET"
             /\ transport'.requests[1].endpoint = EndpointOf(type)
             /\ transport'.requests[1].id = id
             /\ transport'.requests[1].binary = (type = "zip")
             /\ checkIsDirectory(fs', d)
             /\ transport'.mkdirs = (IF checkIsDirectory(fs, d) THEN <<>> ELSE <<d>>)
             /\ fs'[d].files = [fs[d].files EXCEPT ![ActivityFileName(id, type)] =
                                   BodyFile(lastOp'.body)]
             /\ \A e \in Dirs \ {d} : fs'[e] = fs[e]]_vars

\* A zip download created the directory and wrote <dir>/123.zip.
DownloadWitness ==
    /\ lastOp.op = "downloadOriginalActivityData"
    /\ lastOp.err = "none"
    /\ lastOp.type = "zip"
    /\ transport.mkdirs = <<lastOp.arg>>
    /\ fs[lastOp.arg].files[ActivityFileName(123, "zip")] = BodyFile(lastOp.body)

====
